---- MODULE Spec2Model ----
(***************************************************************************)
(* Explicit-free-list allocator of malloclab/malloc_explicit.c             *)
(* (first-fit build: NEXT_FIT is not defined, line 36; the code under      *)
(* #ifdef NEXT_FIT is modelled too, for a heap whose NEXT_FIT field is     *)
(* TRUE).                                                                  *)
(*                                                                         *)
(* The heap is modelled as the raw array of 4-byte words the macros GET    *)
(* and PUT act on, so stale tags and stale link fields are part of the     *)
(* state.  Addresses are byte offsets from the first byte mem_sbrk ever    *)
(* returned; NULL is 0.  size_t and pointers are 32 bits wide (the tag     *)
(* layout of lines 5-13: the lab is built with -m32); a 32-bit word is     *)
(* represented by its two's-complement reading, so that sums and           *)
(* differences wrap as in C, and the comparisons and divisions of size_t   *)
(* are the unsigned ones (ULe, UDiv).                                      *)
(*                                                                         *)
(* Spec: the caller makes up to MaxCalls calls of mm_malloc, mm_free and   *)
(* mm_realloc on the pointers it holds, with requests of SmallReq and      *)
(* LargeReq bytes, in a heap region of MaxHeap bytes.  SpecWide adds       *)
(* requests within OVERHEAD bytes of 2^32, where line 143 wraps around.    *)
(* SpecMid is the caller that only allocates and deallocates, with         *)
(* requests of MidReq bytes as well.  SpecData is the caller that also     *)
(* stores bytes in the payloads it holds.  SpecNext is the caller of Spec   *)
(* on the NEXT_FIT build, SpecNextWide the caller of SpecWide on it.       *)
(*                                                                         *)
(* A store through a null pointer (line 420, when the block unlinked is    *)
(* the sentinel) and abort() inside the C library's free() (line 180) end  *)
(* the process: the call does not return and no call follows.              *)
(***************************************************************************)
EXTENDS Integers, Sequences, FiniteSets, TLC

(* ------------------------------ bounds --------------------------------- *)
\* mem_max_addr of the heap region, in bytes from its base
MaxHeap == 192
\* the two request sizes the caller draws from
SmallReq == 5
LargeReq == 40
\* a request size whose block leaves less than MinSplit of a LargeReq block
MidReq == 12
\* the number of calls a run makes
MaxCalls == 6
\* how many of the largest size_t values the wide requests draw from
MaxWrap == 1
\* values a fresh (never written) heap word may hold: 0..MaxFresh
MaxFresh == 0
\* values libc free() may leave in the two words it writes: 0..MaxJunk
MaxJunk == 0
\* byte values the caller stores in a payload: 1..MaxByte
MaxByte == 1

(* ---------------------------- constants -------------------------------- *)
WSIZE == 4
DSIZE == 8
PSIZE == 8
OVERHEAD == 8
NULL == 0
IntMax == 2147483647

(* --------------------- 32-bit unsigned arithmetic ---------------------- *)
\* a + b (mod 2^32), for 0 <= b
Add32(a, b) ==
    IF a > IntMax - b THEN ((a - IntMax) - 1) + ((b - IntMax) - 1) ELSE a + b

\* a - b (mod 2^32)
Sub32(a, b) ==
    IF b >= 0 /\ a < (b - IntMax) - 1
    THEN ((a + IntMax) + 1) + ((IntMax - b) + 1)
    ELSE IF b < 0 /\ a > IntMax + b
         THEN ((a - IntMax) - 1) - ((b + IntMax) + 1)
         ELSE a - b

\* unsigned a <= b
ULe(a, b) ==
    IF (a >= 0) = (b >= 0) THEN a <= b ELSE a >= 0

\* unsigned a >= b
UGe(a, b) == ULe(b, a)

\* unsigned a / d, for d a power of two
UDiv(a, d) ==
    IF a >= 0 THEN a \div d
    ELSE (((a + IntMax) + 1) \div d) + 2 * (1073741824 \div d)

\* 2^31 / a, for a a power of two
Half(a) == 2 * (1073741824 \div a)

\* a * b (mod 2^32), for a a power of two and 0 <= b
Mul32(a, b) ==
    LET bm == b % (2 * Half(a))
    IN  IF bm < Half(a) THEN a * bm
        ELSE ((a * (bm - Half(a))) - IntMax) - 1

MIN(x, y) == IF ~ULe(x, y) THEN y ELSE x

(* ------------------------- words of the heap --------------------------- *)
\* A heap H is [mem, brk, heap_listp, NEXT_FIT, rover, killed]: mem maps
\* the word index a \div WSIZE of every byte address a < brk to the word
\* stored there; NEXT_FIT says whether the build defines NEXT_FIT, and rover
\* is the global of line 92 (NULL in a build that has none); killed says
\* that a signal has ended the process (a store through NULL, or abort()
\* in the C library), after which no call is made or completed.

PACK(size, alloc) == IF size % 2 = 1 /\ alloc = 1 THEN size ELSE size + alloc

GET(H, p) == H.mem[p \div WSIZE]
PUT(H, p, val) == [H EXCEPT !.mem[p \div WSIZE] = val]
\* a pointer is one 32-bit word: PSIZE only spaces the two link fields
PUT_ADDR(H, p, val) == [H EXCEPT !.mem[p \div WSIZE] = val]

GET_SIZE(H, p) == GET(H, p) - (GET(H, p) % 8)
GET_ALLOC(H, p) == GET(H, p) % 2

HDRP(bp) == bp - WSIZE
FTRP(H, bp) == bp + GET_SIZE(H, HDRP(bp)) - DSIZE

NXTP(bp) == bp
PRVP(bp) == bp + PSIZE

NEXT_BLKP(H, bp) == bp + GET_SIZE(H, bp - WSIZE)
PREV_BLKP(H, bp) == bp - GET_SIZE(H, bp - DSIZE)

NEXT_BLKP_EX(H, bp) == GET(H, NXTP(bp))
PREV_BLKP_EX(H, bp) == GET(H, PRVP(bp))

(* ------------------------- the heap region ----------------------------- *)
\* mem_sbrk(incr) fails when incr is negative (as an int) or the region is
\* exhausted, and then changes nothing.
SbrkFails(H, incr) == incr < 0 \/ H.brk + incr > MaxHeap

\* the heap after a successful mem_sbrk(incr); the call returns the old brk.
\* The appended words hold the value fill.
mem_sbrk(H, incr, fill) ==
    [H EXCEPT !.brk = H.brk + incr,
              !.mem = [i \in 0..((H.brk + incr) \div WSIZE - 1) |->
                         IF i < H.brk \div WSIZE THEN H.mem[i] ELSE fill]]

(* ----------------------------- boundary tags --------------------------- *)
\* PUT(HDRP(bp), val)
PUT_HDR(H, bp, val) == PUT(H, HDRP(bp), val)

\* PUT(FTRP(bp), val): the footer is found through the header as it is now
PUT_FTR(H, bp, val) == PUT(H, FTRP(H, bp), val)

\* PUT(HDRP(bp), PACK(size, alloc)); PUT(FTRP(bp), PACK(size, alloc));
set_tags(H, bp, size, alloc) ==
    PUT_FTR(PUT_HDR(H, bp, PACK(size, alloc)), bp, PACK(size, alloc))

(* --------------------------- the free list ----------------------------- *)
\* insertblock that forgets the sentinel's forward link (line 410)
insertblock_nohead(H, bp) ==
    LET tmp == NEXT_BLKP_EX(H, H.heap_listp)
        H1 == PUT_ADDR(H, NXTP(bp), tmp)
        H2 == IF tmp # NULL THEN PUT_ADDR(H1, PRVP(tmp), bp) ELSE H1
    IN  PUT_ADDR(H2, PRVP(bp), H.heap_listp)

insertblock(H, bp) ==
    LET tmp == NEXT_BLKP_EX(H, H.heap_listp)
        H1 == PUT_ADDR(H, NXTP(bp), tmp)
        H2 == IF tmp # NULL THEN PUT_ADDR(H1, PRVP(tmp), bp) ELSE H1
        H3 == PUT_ADDR(H2, PRVP(bp), H.heap_listp)
    IN  PUT_ADDR(H3, NXTP(H.heap_listp), bp)

\* deleteblock that leaves the successor's back link as it is (line 419)
deleteblock_noback(H, bp) ==
    PUT_ADDR(H, NXTP(PREV_BLKP_EX(H, bp)), NEXT_BLKP_EX(H, bp))

\* lines 414-416: the rover leaves the block that is about to be unlinked
rover_advance(H, bp) ==
    IF H.NEXT_FIT /\ H.rover = bp THEN [H EXCEPT !.rover = NEXT_BLKP_EX(H, bp)] ELSE H

\* line 420: the store through NXTP(prv); when prv is NULL (bp is the
\* sentinel) it is a store through a null pointer, which kills the process
unlink_store(H1, prv, nxt) ==
    IF prv = NULL THEN [H1 EXCEPT !.killed = TRUE] ELSE PUT_ADDR(H1, NXTP(prv), nxt)

\* lines 417-420
unlink(H, bp) ==
    LET nxt == NEXT_BLKP_EX(H, bp)
        prv == PREV_BLKP_EX(H, bp)
    IN  unlink_store(IF nxt # NULL THEN PUT_ADDR(H, PRVP(nxt), prv) ELSE H, prv, nxt)

deleteblock(H, bp) == unlink(rover_advance(H, bp), bp)

\* the for loop of find_fit, from list node bp on
RECURSIVE find_from(_, _, _)
find_from(H, bp, asize) ==
    IF bp = NULL THEN NULL
    ELSE IF ULe(asize, GET_SIZE(H, HDRP(bp))) THEN bp
    ELSE find_from(H, NEXT_BLKP_EX(H, bp), asize)

\* find_fit that starts its scan at the second node of the list
find_fit_second(H, asize) ==
    find_from(H, NEXT_BLKP_EX(H, NEXT_BLKP_EX(H, H.heap_listp)), asize)

\* the first loop of the next-fit search (lines 313-316), from bp on, and
\* the second loop (lines 319-322) when the first one runs off the list;
\* line 314 reads the allocated bit from the word at rover, not its header
RECURSIVE find_rover(_, _, _)
find_rover(H, bp, asize) ==
    IF bp = NULL THEN find_from(H, NEXT_BLKP_EX(H, H.heap_listp), asize)
    ELSE IF GET_ALLOC(H, bp) = 0 /\ ULe(asize, GET_SIZE(H, HDRP(bp))) THEN bp
    ELSE find_rover(H, NEXT_BLKP_EX(H, bp), asize)

find_fit(H, asize) ==
    IF H.NEXT_FIT THEN find_rover(H, H.rover, asize)
    ELSE find_from(H, NEXT_BLKP_EX(H, H.heap_listp), asize)

\* the heap find_fit leaves when it returns bp: both loops of lines 313-322
\* run on the global rover, which ends as the value returned
find_fit_rover(H, bp) == IF H.NEXT_FIT THEN [H EXCEPT !.rover = bp] ELSE H

(* ------------------------------ coalesce ------------------------------- *)
\* the minimum block size the split tests use
MinSplit == DSIZE + 2 * PSIZE + OVERHEAD

\* lines 348-353 without the footer write of line 350
merge_prev_nofooter(H, bp, prv, size) ==
    [h |-> deleteblock(PUT_HDR(H, prv, PACK(size, 0)), prv),
     bp |-> prv,
     size |-> size]

\* lines 348-353, with size already grown by the predecessor's size: the
\* result is the heap, the block pointer and the size coalesce goes on with
merge_prev(H, bp, prv, size) ==
    [h |-> deleteblock(PUT_HDR(PUT_FTR(H, bp, PACK(size, 0)), prv, PACK(size, 0)), prv),
     bp |-> prv,
     size |-> size]

\* lines 347-354
coalesce_prev(H, bp, prev_alloc, size) ==
    IF prev_alloc = 0
    THEN merge_prev(H, bp, PREV_BLKP(H, bp),
                    Add32(size, GET_SIZE(H, HDRP(PREV_BLKP(H, bp)))))
    ELSE [h |-> H, bp |-> bp, size |-> size]

\* lines 356-362 without the deleteblock of line 359
coalesce_next_keep(H, bp, next_alloc, size) ==
    IF next_alloc = 0
    THEN set_tags(H, bp, Add32(size, GET_SIZE(H, HDRP(NEXT_BLKP(H, bp)))), 0)
    ELSE H

\* lines 356-362
coalesce_next(H, bp, next_alloc, size) ==
    IF next_alloc = 0
    THEN set_tags(deleteblock(H, NEXT_BLKP(H, bp)), bp,
                  Add32(size, GET_SIZE(H, HDRP(NEXT_BLKP(H, bp)))), 0)
    ELSE H

\* lines 366-372: a rover inside the merged block moves to its start
rover_fix(H, bp) ==
    IF H.NEXT_FIT /\ H.rover > bp /\ H.rover < NEXT_BLKP(H, bp)
    THEN [H EXCEPT !.rover = bp] ELSE H

\* lines 356-374, from the result P of the predecessor step
coalesce_rest(P, next_alloc) ==
    [h |-> rover_fix(insertblock(coalesce_next(P.h, P.bp, next_alloc, P.size), P.bp),
                     P.bp),
     ret |-> P.bp]

\* coalesce returns [h |-> heap, ret |-> block pointer]
coalesce(H, bp) ==
    coalesce_rest(coalesce_prev(H, bp, GET_ALLOC(H, FTRP(H, PREV_BLKP(H, bp))),
                                GET_SIZE(H, HDRP(bp))),
                  GET_ALLOC(H, HDRP(NEXT_BLKP(H, bp))))

(* --------------------------- extend_heap ------------------------------- *)
\* line 263: the number of bytes extend_heap(words) asks mem_sbrk for
extend_size(words) ==
    IF words % 2 = 1 THEN Mul32(WSIZE, Add32(words, 1)) ELSE Mul32(WSIZE, words)

\* lines 270-272: the new epilogue header, then coalesce
extend_epilogue(H, bp) == coalesce(PUT_HDR(H, NEXT_BLKP(H, bp), PACK(0, 1)), bp)

\* lines 268-272, in the heap H that mem_sbrk returned bp in
extend_init(H, bp, size) == extend_epilogue(set_tags(H, bp, size, 0), bp)

\* lines 264-272, with a header written before mem_sbrk's answer is looked at
extend_sized_early(H, size, fill) ==
    IF SbrkFails(H, size) THEN [h |-> PUT_HDR(H, H.brk, PACK(size, 0)), ret |-> NULL]
    ELSE extend_init(mem_sbrk(H, size, fill), H.brk, size)

\* lines 264-272, with mem_sbrk asked for DSIZE bytes more than the block
extend_sized_slack(H, size, fill) ==
    IF SbrkFails(H, size + DSIZE) THEN [h |-> H, ret |-> NULL]
    ELSE extend_init(mem_sbrk(H, size + DSIZE, fill), H.brk, size)

\* lines 264-272
extend_sized(H, size, fill) ==
    IF SbrkFails(H, size) THEN [h |-> H, ret |-> NULL]
    ELSE extend_init(mem_sbrk(H, size, fill), H.brk, size)

\* extend_heap returns [h |-> heap, ret |-> block pointer or NULL]
extend_heap(H, words, fill) == extend_sized(H, extend_size(words), fill)

(* ------------------------------- place --------------------------------- *)
\* the remainder of a split (lines 189-192, 204-207, 291-294): the block
\* after bp becomes a free block of rem bytes and goes on the free list
split_at(H, nb, rem) == insertblock(set_tags(H, nb, rem, 0), nb)

split_rest(H, bp, rem) == split_at(H, NEXT_BLKP(H, bp), rem)

\* lines 296-298 alone: the block is never split
place_tags_whole(D, bp, asize, csize) == set_tags(D, bp, csize, 1)

\* lines 288-299, in the heap D that line 287 left
place_tags(D, bp, asize, csize) ==
    IF UGe(Sub32(csize, asize), MinSplit)
    THEN split_rest(set_tags(D, bp, asize, 1), bp, Sub32(csize, asize))
    ELSE set_tags(D, bp, csize, 1)

\* place without line 287: the block stays on the free list
place_nodelete(H, bp, asize) ==
    place_tags(H, bp, asize, GET_SIZE(H, HDRP(bp)))

place(H, bp, asize) ==
    place_tags(deleteblock(H, bp), bp, asize, GET_SIZE(H, HDRP(bp)))

(* ------------------------------ mm_init -------------------------------- *)
\* the heap region before mm_init: empty
NoHeap ==
    [mem |-> [i \in {} |-> 0], brk |-> 0, heap_listp |-> NULL,
     NEXT_FIT |-> FALSE, rover |-> NULL, killed |-> FALSE]

\* the same in a build that defines NEXT_FIT
NoHeapNext == [NoHeap EXCEPT !.NEXT_FIT = TRUE]

\* lines 114-120, with heap_listp the address mem_sbrk returned
init_tags(H) ==
    LET hl == H.heap_listp
        H1 == PUT(H, hl, 0)
        H2 == PUT(H1, hl + WSIZE, PACK(OVERHEAD + 2 * PSIZE, 1))
        H3 == PUT_ADDR(H2, hl + DSIZE, NULL)
        H4 == PUT_ADDR(H3, hl + DSIZE + PSIZE, NULL)
        H5 == PUT(H4, hl + DSIZE + 2 * PSIZE, PACK(OVERHEAD + 2 * PSIZE, 1))
        H6 == PUT(H5, hl + WSIZE + DSIZE + 2 * PSIZE, PACK(0, 1))
    IN  [H6 EXCEPT !.heap_listp = hl + DSIZE,
                   !.rover = IF H.NEXT_FIT THEN hl + DSIZE ELSE H.rover]

\* lines 112-130 on the empty region B of either build
init_region(B, fill) ==
    init_tags([mem_sbrk(B, 4 * WSIZE + 2 * PSIZE, fill) EXCEPT !.heap_listp = B.brk])

mm_init(fill) == init_region(NoHeap, fill)

\* mm_init in a build that defines NEXT_FIT
mm_init_next(fill) == init_region(NoHeapNext, fill)

(* ----------------------------- mm_malloc ------------------------------- *)
\* the request plus the block overhead, not rounded up to DSIZE
realSize_unrounded(size) == Add32(size, OVERHEAD + 2 * PSIZE)

\* the block size computed from a request (lines 143 and 176)
realSize(size) ==
    Mul32(DSIZE, UDiv(Add32(size, OVERHEAD + 2 * PSIZE + (DSIZE - 1)), DSIZE))

\* lines 150-153, from the result E of extend_heap
malloc_extended(E, rs) ==
    IF E.ret = NULL THEN [h |-> E.h, ret |-> NULL]
    ELSE [h |-> place(E.h, E.ret, rs), ret |-> E.ret]

\* lines 145-153, from the result bp of find_fit
malloc_fit(H, rs, bp, fill) ==
    IF bp # NULL THEN [h |-> place(H, bp, rs), ret |-> bp]
    ELSE malloc_extended(extend_heap(H, UDiv(rs, WSIZE), fill), rs)

\* lines 144-153
malloc_sized(H, rs, fill) ==
    malloc_fit(find_fit_rover(H, find_fit(H, rs)), rs, find_fit(H, rs), fill)

\* mm_malloc returns [h |-> heap, ret |-> payload pointer or NULL]
mm_malloc(H, size, fill) ==
    IF size = 0 THEN [h |-> H, ret |-> NULL]
    ELSE malloc_sized(H, realSize(size), fill)

(* ------------------------------ mm_free -------------------------------- *)
\* lines 164-166
free_block(H, bp) ==
    coalesce(PUT_FTR(PUT_HDR(H, bp, GET_SIZE(H, HDRP(bp))), bp,
                     GET_SIZE(H, HDRP(bp))), bp).h

\* mm_free without the already-free test of line 163
mm_free_noguard(H, bp) == free_block(H, bp)

mm_free(H, bp) ==
    IF GET_ALLOC(H, HDRP(bp)) = 0 THEN H ELSE free_block(H, bp)

(* ----------------------------- mm_realloc ------------------------------ *)
\* k-th power of 256, k in 0..3
Pow256(k) == IF k = 0 THEN 1 ELSE IF k = 1 THEN 256 ELSE IF k = 2 THEN 65536 ELSE 16777216

\* memcpy(dst, src, n) on two word-aligned, non-overlapping ranges: whole
\* words, then the low n % 4 bytes of the last word (little-endian)
memcpy(H, dst, src, n) ==
    LET full == UDiv(n, WSIZE)
        k == n % WSIZE
        d0 == dst \div WSIZE
        s0 == src \div WSIZE
    IN  [H EXCEPT !.mem =
           [i \in DOMAIN H.mem |->
              IF i >= d0 /\ i < d0 + full THEN H.mem[s0 + (i - d0)]
              ELSE IF k # 0 /\ i = d0 + full
                   THEN (H.mem[s0 + full] % Pow256(k))
                        + (H.mem[i] \div Pow256(k)) * Pow256(k)
                   ELSE H.mem[i]]]

\* Line 180 calls the C library's free(), not mm_free, on a pointer the C
\* library never returned: undefined behaviour.  The library either finds
\* the words before the payload unacceptable as a chunk header and aborts
\* the process (ub.aborted), or takes them for one and returns, having at
\* most written its own list link and key into the first two words of the
\* payload (ub.wrote, with value ub.junk); no tag of the heap and no link
\* of the free list is touched.
libc_free(H, ptr, ub) ==
    IF ub.aborted THEN [H EXCEPT !.killed = TRUE]
    ELSE IF ub.wrote THEN PUT(PUT(H, ptr, ub.junk), ptr + WSIZE, ub.junk)
    ELSE H

\* lines 185-195: the request fits the block as it is
realloc_inplace(H, ptr, rs, remainSize) ==
    IF UGe(remainSize, MinSplit)
    THEN [h |-> split_rest(set_tags(H, ptr, rs, 1), ptr, remainSize), ret |-> ptr]
    ELSE [h |-> H, ret |-> ptr]

\* line 198: the test that sends mm_realloc into the successor
absorb_test(H, nxt, remainSize) ==
    /\ GET_ALLOC(H, HDRP(nxt)) = 0
    /\ UGe(GET_SIZE(H, HDRP(nxt)), remainSize)

\* lines 201-211, in the heap D that line 199 left
absorb_tags(D, ptr, rs, totalSize) ==
    IF UGe(Sub32(totalSize, rs), MinSplit)
    THEN split_rest(set_tags(D, ptr, rs, 1), ptr, Sub32(totalSize, rs))
    ELSE set_tags(D, ptr, totalSize, 1)

\* lines 200-211, in the heap D that line 199 left
absorb_sized(D, ptr, rs, nxt) ==
    absorb_tags(D, ptr, rs, Add32(GET_SIZE(D, HDRP(ptr)), GET_SIZE(D, HDRP(nxt))))

\* lines 199-212: take the free successor nxt into the block
realloc_absorb(H, ptr, rs, nxt) ==
    [h |-> absorb_sized(deleteblock(H, nxt), ptr, rs, nxt), ret |-> ptr]

\* lines 217-221 without the memcpy of line 219
move_copy_nocopy(M, ptr, size) ==
    IF M.ret = NULL THEN [h |-> M.h, ret |-> NULL]
    ELSE [h |-> mm_free(M.h, ptr), ret |-> M.ret]

\* lines 217-221, from the result M of mm_malloc
move_copy(M, ptr, size) ==
    IF M.ret = NULL THEN [h |-> M.h, ret |-> NULL]
    ELSE [h |-> mm_free(memcpy(M.h, M.ret, ptr, MIN(size, GET_SIZE(M.h, HDRP(ptr)))),
                        ptr),
          ret |-> M.ret]

\* the move path that frees the old block before it has the new one
realloc_move_freefirst(H, ptr, size, rs, fill) ==
    move_copy(mm_malloc(mm_free(H, ptr), rs, fill), ptr, size)

\* lines 216-221: allocate, copy, free
realloc_move(H, ptr, size, rs, fill) ==
    move_copy(mm_malloc(H, rs, fill), ptr, size)

\* lines 183-221, with realSize computed
realloc_sized(H, ptr, size, rs, remainSize, fill) ==
    IF UGe(GET_SIZE(H, HDRP(ptr)), rs)
    THEN realloc_inplace(H, ptr, rs, remainSize)
    ELSE IF absorb_test(H, NEXT_BLKP(H, ptr), remainSize)
         THEN realloc_absorb(H, ptr, rs, NEXT_BLKP(H, ptr))
         ELSE realloc_move(H, ptr, size, rs, fill)

\* lines 177-221, with realSize computed
realloc_cases(H, ptr, size, rs, fill, ub) ==
    IF ptr = NULL THEN mm_malloc(H, rs, fill)
    ELSE IF size = 0 THEN [h |-> libc_free(H, ptr, ub), ret |-> NULL]
    ELSE realloc_sized(H, ptr, size, rs, Sub32(GET_SIZE(H, HDRP(ptr)), rs), fill)

\* mm_realloc returns [h |-> heap, ret |-> payload pointer or NULL]
mm_realloc(H, ptr, size, fill, ub) ==
    realloc_cases(H, ptr, size, realSize(size), fill, ub)

(* ---------------------------- mm_checkheap ----------------------------- *)
\* mm_checkheap(0) reads the heap and prints diagnostics; it is modelled by
\* the sequence of lines it prints.
BadPrologue == "Bad prologue header"
NotAligned == "Error: not doubleword aligned"
TagMismatch == "Error: header does not match footer"
BadEpilogue == "Bad epilogue header"

\* lines 399-402
checkblock(H, bp) ==
    (IF bp % 8 # 0 THEN <<NotAligned>> ELSE <<>>)
    \o (IF GET(H, HDRP(bp)) # GET(H, FTRP(H, bp)) THEN <<TagMismatch>> ELSE <<>>)

\* lines 235-236
check_prologue(H) ==
    IF GET_SIZE(H, HDRP(H.heap_listp)) # DSIZE \/ GET_ALLOC(H, HDRP(H.heap_listp)) = 0
    THEN <<BadPrologue>> ELSE <<>>

\* lines 247-248, at the block pointer the loop stopped at
check_epilogue(H, bp) ==
    IF GET_SIZE(H, HDRP(bp)) # 0 \/ GET_ALLOC(H, HDRP(bp)) = 0
    THEN <<BadEpilogue>> ELSE <<>>

\* the loop of lines 239-243 from bp on, then lines 247-248
RECURSIVE check_from(_, _)
check_from(H, bp) ==
    IF GET_SIZE(H, HDRP(bp)) # 0
    THEN checkblock(H, bp) \o check_from(H, NEXT_BLKP(H, bp))
    ELSE check_epilogue(H, bp)

\* the lines mm_checkheap(0) prints
mm_checkheap(H) ==
    check_prologue(H) \o checkblock(H, H.heap_listp) \o check_from(H, H.heap_listp)

(* ------------------------- the state machine --------------------------- *)
\* heap: the allocator's memory and globals; live: the payload pointers the
\* caller holds; last: the call just completed; fresh: the value every
\* never-written word of the heap region holds; ncalls: calls made so far
VARIABLES heap, live, last, fresh, ncalls

vars == <<heap, live, last, fresh, ncalls>>

ReqSizes == {SmallReq, LargeReq}
FreshWords == 0..MaxFresh
LibcOutcomes ==
    [wrote : BOOLEAN, junk : 0..MaxJunk, aborted : {FALSE}]
        \cup {[wrote |-> FALSE, junk |-> 0, aborted |-> TRUE]}

Call(op, ptr, size, ret) ==
    [op |-> op, ptr |-> ptr, size |-> size, ret |-> ret]

Init ==
    /\ fresh \in FreshWords
    /\ heap = mm_init(fresh)
    /\ live = {}
    /\ last = Call("init", NULL, 0, NULL)
    /\ ncalls = 0

\* the bookkeeping every call shares; a killed process makes no call
Count ==
    /\ ~heap.killed
    /\ ncalls < MaxCalls
    /\ ncalls' = ncalls + 1
    /\ fresh' = fresh

\* the caller's pointers after q = mm_realloc(p, n)
realloc_live(p, n, ret) ==
    IF p # NULL /\ n = 0 THEN live \ {p}
    ELSE IF ret = NULL THEN live
    ELSE (live \ {p}) \cup {ret}

\* a signal has killed the process inside the call on p and n: the call
\* does not complete and returns nothing; the state keeps the heap the call
\* started from, marked killed
Killed(p, n) ==
    /\ heap' = [heap EXCEPT !.killed = TRUE]
    /\ live' = live
    /\ last' = Call("killed", p, n, NULL)

\* p = mm_malloc(n), with result R
MallocDone(n, R) ==
    IF R.h.killed THEN Killed(NULL, n)
    ELSE /\ heap' = R.h
         /\ live' = live \cup ({R.ret} \ {NULL})
         /\ last' = Call("malloc", NULL, n, R.ret)

\* q = mm_realloc(p, n), with result R
ReallocDone(p, n, R) ==
    IF R.h.killed THEN Killed(p, n)
    ELSE /\ heap' = R.h
         /\ live' = realloc_live(p, n, R.ret)
         /\ last' = Call("realloc", p, n, R.ret)

\* mm_free(p), recorded as op, with resulting heap H1
FreeDone(op, p, H1) ==
    IF H1.killed THEN Killed(p, 0)
    ELSE /\ heap' = H1
         /\ live' = live \ {p}
         /\ last' = Call(op, p, 0, NULL)

\* p = mm_malloc(n)
Malloc ==
    \E n \in ReqSizes :
        /\ Count
        /\ MallocDone(n, mm_malloc(heap, n, fresh))

\* mm_free(p) on a live pointer
Free ==
    \E p \in live :
        /\ Count
        /\ FreeDone("free", p, mm_free(heap, p))

\* mm_free(p) again, right after mm_free(p)
FreeAgain ==
    /\ last.op \in {"free", "free2"}
    /\ Count
    /\ FreeDone("free2", last.ptr, mm_free(heap, last.ptr))

\* q = mm_realloc(p, n) on a live pointer or on NULL
Realloc ==
    \E p \in live \cup {NULL}, n \in ReqSizes \cup {0}, ub \in LibcOutcomes :
        /\ Count
        /\ ReallocDone(p, n, mm_realloc(heap, p, n, fresh, ub))

Next == Malloc \/ Free \/ FreeAgain \/ Realloc

Spec == Init /\ [][Next]_vars

(* ------------------ the heap as the properties see it ------------------ *)
\* the physical block chain: from the prologue, by successive block sizes,
\* up to the first zero-size header
RECURSIVE BlocksFrom(_, _)
BlocksFrom(H, bp) ==
    IF HDRP(bp) >= H.brk \/ GET_SIZE(H, HDRP(bp)) <= 0 THEN <<>>
    ELSE <<bp>> \o BlocksFrom(H, NEXT_BLKP(H, bp))

Blocks(H) == BlocksFrom(H, H.heap_listp)

\* the free list: the nodes reached from the sentinel's forward link, in
\* list order (cut after more nodes than the heap has room for)
RECURSIVE ListFrom(_, _, _)
ListFrom(H, bp, fuel) ==
    IF bp = NULL \/ fuel = 0 \/ bp < 0 \/ bp >= H.brk THEN <<>>
    ELSE <<bp>> \o ListFrom(H, NEXT_BLKP_EX(H, bp), fuel - 1)

FreeList(H) == ListFrom(H, NEXT_BLKP_EX(H, H.heap_listp), H.brk \div DSIZE)

Range(f) == {f[i] : i \in DOMAIN f}

IsFree(H, bp) == GET_ALLOC(H, HDRP(bp)) = 0

\* the blocks of the chain whose allocated bit is 0
FreeBlocks(H) == {b \in Range(Blocks(H)) : IsFree(H, b)}

\* the bytes of the block at bp, header through footer
Bytes(H, bp) == HDRP(bp)..(HDRP(bp) + GET_SIZE(H, HDRP(bp)) - 1)

(* ------------------------------ claims --------------------------------- *)

\* C1: after any sequence of completed calls no two physically adjacent
\* blocks are both free.
C1_NoAdjacentFree ==
    LET B == Blocks(heap)
    IN  \A i \in 1..(Len(B) - 1) : ~(IsFree(heap, B[i]) /\ IsFree(heap, B[i + 1]))

\* C2: the blocks of the chain with allocated bit 0 are exactly the nodes
\* reachable from the sentinel's forward link, each reachable once.
C2_FreeListBijection ==
    LET L == FreeList(heap)
    IN  /\ Range(L) = FreeBlocks(heap)
        /\ \A i, j \in DOMAIN L : L[i] = L[j] => i = j

\* C2 witness: a call has completed with two blocks on the free list
C2_Witness ==
    /\ last.op \in {"free", "realloc"}
    /\ Len(FreeList(heap)) >= 2
    /\ Cardinality(live) >= 1

\* C3: the blocks of two distinct live pointers are disjoint, and no live
\* block overlaps the prologue, the epilogue or a free block.
C3_NoOverlap ==
    /\ \A p, q \in live : p # q => Bytes(heap, p) \cap Bytes(heap, q) = {}
    /\ \A p \in live :
        /\ GET_SIZE(heap, HDRP(p)) > 0
        /\ Bytes(heap, p) \cap Bytes(heap, heap.heap_listp) = {}
        /\ Bytes(heap, p) \cap ((heap.brk - WSIZE)..(heap.brk - 1)) = {}
        /\ \A f \in FreeBlocks(heap) \cup Range(FreeList(heap)) :
              Bytes(heap, p) \cap Bytes(heap, f) = {}

\* C3 witness: three live blocks next to a free block
C3_Witness ==
    /\ Cardinality(live) >= 3
    /\ FreeBlocks(heap) # {}

\* C4: a successful allocate(n), n > 0, returns a block whose size less the
\* header and footer is at least n.
C4_Capacity ==
    (last.op = "malloc" /\ last.ret # NULL)
        => UGe(Sub32(GET_SIZE(heap, HDRP(last.ret)), OVERHEAD), last.size)

\* C5: resize(p, 0) on a live pointer returns nothing and leaves the heap
\* deallocate(p) would have left.
C5_ResizeZeroIsFree ==
    [][(last'.op = "realloc" /\ last'.ptr # NULL /\ last'.size = 0)
         => (last'.ret = NULL /\ heap' = mm_free(heap, last'.ptr))]_vars

\* C6: resize(nothing, n) returns what allocate(n) returns and leaves the
\* heap allocate(n) leaves; resize(nothing, 0) returns nothing.
C6_ResizeNullIsMalloc ==
    [][(last'.op = "realloc" /\ last'.ptr = NULL)
         => /\ last'.ret = mm_malloc(heap, last'.size, fresh).ret
            /\ heap' = mm_malloc(heap, last'.size, fresh).h]_vars

\* the case of C7 in the heap H: a growing resize of ptr whose physical
\* successor is free and large enough together with the block
AbsorbCase(H, ptr, size) ==
    /\ ptr # NULL
    /\ size # 0
    /\ realSize(size) > GET_SIZE(H, HDRP(ptr))
    /\ IsFree(H, NEXT_BLKP(H, ptr))
    /\ GET_SIZE(H, HDRP(ptr)) + GET_SIZE(H, HDRP(NEXT_BLKP(H, ptr))) >= realSize(size)

\* C7: in that case resize returns the same pointer, takes the successor
\* off the free list and into the block, and does not extend the heap.
C7_ResizeAbsorbsNext ==
    [][(last'.op = "realloc" /\ AbsorbCase(heap, last'.ptr, last'.size))
         => /\ last'.ret = last'.ptr
            /\ heap'.brk = heap.brk
            /\ GET_SIZE(heap', HDRP(last'.ptr)) >= realSize(last'.size)
            /\ NEXT_BLKP(heap, last'.ptr) \notin Range(FreeList(heap'))]_vars

\* C8: deallocate(p) right after deallocate(p) changes nothing.
C8_IdempotentFree ==
    [][(last'.op = "free2") => (heap' = heap /\ live' = live)]_vars

\* C8 witness: the second deallocate(p) has run on a block that the first
\* one merged with its predecessor and with its successor
C8_Witness ==
    /\ last.op = "free2"
    /\ \E b \in FreeBlocks(heap) :
         /\ b < last.ptr
         /\ NEXT_BLKP(heap, b) > NEXT_BLKP(heap, last.ptr)

\* C9: a resize that fails on the move path leaves the heap as it was.
C9_ResizeFailureKeepsBlock ==
    [][(last'.op = "realloc" /\ last'.ptr # NULL /\ last'.size # 0 /\ last'.ret = NULL)
         => /\ heap' = heap
            /\ live' = live
            /\ ~IsFree(heap', last'.ptr)]_vars

\* C9 witness: a growing resize of a live block has returned nothing
C9_Witness ==
    /\ last.op = "realloc"
    /\ last.ptr # NULL
    /\ last.size # 0
    /\ last.ret = NULL
    /\ last.ptr \in live
    /\ realSize(last.size) > GET_SIZE(heap, HDRP(last.ptr))

\* C10: an allocate that finds no fit and cannot extend the heap returns
\* nothing and leaves the heap as it was.
C10_ExhaustionKeepsHeap ==
    [][(last'.op = "malloc" /\ last'.ret = NULL) => heap' = heap]_vars

\* C10 witness: allocate has returned nothing while a free block, too small
\* for the request, is on the list
C10_Witness ==
    /\ last.op = "malloc"
    /\ last.size # 0
    /\ last.ret = NULL
    /\ FreeList(heap) # <<>>
    /\ find_fit(heap, realSize(last.size)) = NULL

\* the position of block b in the chain of H
IndexOf(B, b) == CHOOSE i \in DOMAIN B : B[i] = b

\* the first byte after the block at b
EndOf(H, b) == b + GET_SIZE(H, HDRP(b))

\* where the free region around the allocated block p of H starts and
\* ends: p with its free physical predecessor and its free physical
\* successor, if it has them
RegionLo(H, B, i) ==
    IF i > 1 /\ IsFree(H, B[i - 1]) THEN B[i - 1] ELSE B[i]
RegionHi(H, B, i) ==
    IF i < Len(B) /\ IsFree(H, B[i + 1]) THEN EndOf(H, B[i + 1]) ELSE EndOf(H, B[i])

\* in H the bytes from lo up to hi are one free block, with matching tags,
\* that is on the free list once, and no address inside it is on the list
OneFreeBlock(H, lo, hi) ==
    LET L == FreeList(H)
    IN  /\ lo \in FreeBlocks(H)
        /\ EndOf(H, lo) = hi
        /\ GET(H, HDRP(lo)) = GET(H, FTRP(H, lo))
        /\ Cardinality({i \in DOMAIN L : L[i] = lo}) = 1
        /\ \A n \in Range(L) : ~(n > lo /\ n < hi)

\* C13: deallocate(p) leaves p's block and its free physical neighbours as
\* one free block of their summed size, with matching tags, on the free
\* list once and with none of the absorbed blocks on the list; so three
\* adjacent blocks freed in any order end as one free block.
C13_TotalCoalescing ==
    [][(last'.op = "free")
         => LET B == Blocks(heap)
                i == IndexOf(B, last'.ptr)
            IN  OneFreeBlock(heap', RegionLo(heap, B, i), RegionHi(heap, B, i))]_vars

\* C13 witness: the last of three adjacent blocks, the middle one, has
\* been deallocated and the three are one free block, alone on the list
C13_Witness ==
    /\ last.op = "free"
    /\ live = {}
    /\ \E b \in FreeBlocks(heap) :
         /\ b < last.ptr
         /\ EndOf(heap, b) > last.ptr + MinSplit
         /\ GET_SIZE(heap, HDRP(b)) >= 3 * MinSplit
         /\ FreeList(heap) = <<b>>

\* the positions in the free list L of H of the blocks of at least asize bytes
Fits(H, L, asize) == {i \in DOMAIN L : GET_SIZE(H, HDRP(L[i])) >= asize}

\* the first of them in list order
FirstFit(H, L, asize) ==
    L[CHOOSE i \in Fits(H, L, asize) : \A j \in Fits(H, L, asize) : i <= j]

\* C14: allocate(n) returns the first block in free-list order that is at
\* least as large as the rounded request, without extending the heap, and
\* extends the heap (or fails) only when the list has no such block; so
\* allocate(n) right after deallocate of the only block, which allocate(n)
\* had made, returns the same address.
C14_FirstFitReuse ==
    [][(last'.op = "malloc" /\ last'.size # 0)
         => IF Fits(heap, FreeList(heap), realSize(last'.size)) # {}
            THEN /\ last'.ret = FirstFit(heap, FreeList(heap), realSize(last'.size))
                 /\ heap'.brk = heap.brk
            ELSE \/ last'.ret = NULL /\ heap'.brk = heap.brk
                 \/ last'.ret # NULL /\ heap'.brk > heap.brk]_vars

\* C14 witness: the third call, allocate(n), has returned the first block
\* of the heap, which allocate(n) had made and deallocate had freed, and
\* the heap is no larger than that one block needs
C14_Witness ==
    /\ ncalls = 3
    /\ last.op = "malloc"
    /\ last.ret = heap.heap_listp + OVERHEAD + 2 * PSIZE
    /\ heap.brk = last.ret + realSize(last.size)
    /\ live = {last.ret}

\* header, footer and the two link fields of a block
LinkedOverhead == OVERHEAD + 2 * PSIZE

\* the heap in which allocate places a request of asize bytes made in H: H
\* itself when the free list has a fit, else H after extend_heap
PlaceHeap(H, asize) ==
    IF Fits(H, FreeList(H), asize) # {} THEN H
    ELSE extend_heap(H, UDiv(asize, WSIZE), fresh).h

\* the split rule with threshold min: H0 is the heap with the free block bp
\* of c bytes, H1 the heap after a bytes were placed in it
SplitRule(H0, H1, bp, a, c, min) ==
    /\ bp \in Range(FreeList(H0))
    /\ bp \notin Range(FreeList(H1))
    /\ GET(H1, HDRP(bp)) = GET(H1, FTRP(H1, bp))
    /\ IF c - a >= min
       THEN /\ GET(H1, HDRP(bp)) = PACK(a, 1)
            /\ GET(H1, HDRP(bp + a)) = PACK(c - a, 0)
            /\ GET(H1, FTRP(H1, bp + a)) = PACK(c - a, 0)
            /\ Range(FreeList(H1)) = (Range(FreeList(H0)) \ {bp}) \cup {bp + a}
       ELSE /\ GET(H1, HDRP(bp)) = PACK(c, 1)
            /\ FreeBlocks(H1) = FreeBlocks(H0) \ {bp}
            /\ Range(FreeList(H1)) = Range(FreeList(H0)) \ {bp}

\* the split rule on a step that is a successful allocate
PlacedBySplitRule(min) ==
    (last'.op = "malloc" /\ last'.ret # NULL)
        => SplitRule(PlaceHeap(heap, realSize(last'.size)), heap', last'.ret,
                     realSize(last'.size),
                     GET_SIZE(PlaceHeap(heap, realSize(last'.size)), HDRP(last'.ret)),
                     min)

\* C16 as stated: allocate splits the free block exactly when the
\* remainder is at least header + footer + two link fields.
C16_SplitRule_Stated == [][PlacedBySplitRule(LinkedOverhead)]_vars

\* C16, amended: allocate takes the free block off the list and splits it
\* exactly when the remainder is at least DSIZE + 2 * PSIZE + OVERHEAD
\* bytes (header, footer, two link fields and one double word of payload);
\* the front is then allocated at the rounded request and the remainder is
\* a free block on the list; else the whole block is allocated.
C16_SplitRule == [][PlacedBySplitRule(MinSplit)]_vars

\* C16 witness: allocate has split a free-list block whose remainder is
\* exactly the threshold
C16_Witness ==
    /\ last.op = "malloc"
    /\ last.ret # NULL
    /\ heap.brk > EndOf(heap, last.ret) + MinSplit
    /\ GET(heap, HDRP(last.ret)) = PACK(realSize(last.size), 1)
    /\ GET(heap, HDRP(EndOf(heap, last.ret))) = PACK(MinSplit, 0)
    /\ FreeList(heap)[1] = EndOf(heap, last.ret)

\* C12: in every state reached by init() and completed allocate,
\* deallocate and resize calls on valid pointers, check() prints no
\* diagnostic.
C12_CheckerSilent == mm_checkheap(heap) = <<>>

\* what does hold in every state: the prologue report is the only line
CheckerReportsOnlyPrologue == mm_checkheap(heap) = <<BadPrologue>>

\* the byte at address a (little-endian words)
Byte(H, a) == (GET(H, a) \div Pow256(a % WSIZE)) % 256

\* the most bytes the block at p can have been obtained for: its size less
\* what line 143 adds to a request
Capacity(H, p) == GET_SIZE(H, HDRP(p)) - LinkedOverhead

\* the first k bytes at q in H1 are the first k bytes at p in H0
SamePrefix(H0, p, H1, q, k) ==
    \A j \in 0..(k - 1) : Byte(H1, q + j) = Byte(H0, p + j)

\* address a lies in a free block of H
InFreeBlock(H, a) == \E b \in FreeBlocks(H) : b <= a /\ a < EndOf(H, b)

\* C11: a successful resize(p, n), n > 0, of a live pointer returns a
\* pointer at which the first min(old_size, n) bytes are the bytes that
\* were at p, for every old_size the block can have been obtained for; a
\* resize that returns p has made the block large enough in place, and one
\* that returns another pointer has deallocated the old block.
C11_ResizeKeepsContent ==
    [][(last'.op = "realloc" /\ last'.ptr # NULL /\ last'.size # 0 /\ last'.ret # NULL)
         => /\ SamePrefix(heap, last'.ptr, heap', last'.ret,
                          MIN(last'.size, Capacity(heap, last'.ptr)))
            /\ last'.ret \in live'
            /\ ~IsFree(heap', last'.ret)
            /\ Capacity(heap', last'.ret) >= last'.size
            /\ last'.ret # last'.ptr
                  => /\ InFreeBlock(heap', last'.ptr)
                     /\ last'.ptr \notin live']_vars

\* C11 witness: resize has moved a block whose first bytes the caller had
\* stored, and they are at the returned pointer
C11_Witness ==
    /\ last.op = "realloc"
    /\ last.ptr # NULL
    /\ last.ret \notin {NULL, last.ptr}
    /\ \A j \in 0..(SmallReq - 1) : Byte(heap, last.ret + j) \in 1..MaxByte

\* C19: in the NEXT_FIT build the rover is NULL or a block that is free
\* and a node of the free list.
C19_RoverValid ==
    heap.NEXT_FIT
        => \/ heap.rover = NULL
           \/ /\ heap.rover \in Range(FreeList(heap))
              /\ heap.rover \in FreeBlocks(heap)

\* what does hold in the NEXT_FIT build: the rover is NULL, the sentinel or
\* a free block on the list
RoverValidOrSentinel ==
    heap.NEXT_FIT
        => \/ heap.rover \in {NULL, heap.heap_listp}
           \/ /\ heap.rover \in Range(FreeList(heap))
              /\ heap.rover \in FreeBlocks(heap)

\* the rover is at the sentinel only until the first search
RoverOffSentinel ==
    (heap.NEXT_FIT /\ heap.rover = heap.heap_listp)
        => live = {} /\ FreeList(heap) = <<>> /\ heap.brk = 4 * WSIZE + 2 * PSIZE

\* the size field of the tag at p as it is stored: the tag less its
\* allocated bit
RawSize(H, p) == GET(H, p) - GET_ALLOC(H, p)

\* C15: every pointer allocate or resize returned is a multiple of 8 (the
\* heap region starts at an 8-aligned address, here offset 0), and the size
\* stored in every block's header is a multiple of 8.
C15_Alignment ==
    /\ (last.op \in {"malloc", "realloc"} /\ last.ret # NULL) => last.ret % DSIZE = 0
    /\ \A p \in live : p % DSIZE = 0
    /\ \A b \in Range(Blocks(heap)) :
          /\ b % DSIZE = 0
          /\ RawSize(heap, HDRP(b)) % DSIZE = 0

\* C15 witness: allocate has split a free block for a request that is not
\* a multiple of 8
C15_Witness ==
    /\ last.op = "malloc"
    /\ last.ret # NULL
    /\ last.size % DSIZE # 0
    /\ IsFree(heap, NEXT_BLKP(heap, last.ret))
    /\ Cardinality(live) >= 2

\* C17: every block of the chain (prologue, allocated, free) has a footer
\* tag equal to its header tag.
C17_HeaderFooterAgree ==
    \A b \in Range(Blocks(heap)) : GET(heap, HDRP(b)) = GET(heap, FTRP(heap, b))

\* C17 witness: deallocate has merged a block with its free predecessor
\* and its free successor, while another block is live
C17_Witness ==
    /\ last.op = "free"
    /\ live # {}
    /\ \E b \in FreeBlocks(heap) :
         /\ b < last.ptr
         /\ NEXT_BLKP(heap, b) > NEXT_BLKP(heap, last.ptr)

\* the block pointer the chain walk stops at
ChainEnd(H) ==
    LET B == Blocks(H)
    IN  NEXT_BLKP(H, B[Len(B)])

\* the chain starts right after the padding word and ends at a zero-size
\* allocated header in the last word of the heap region
Tiled(H) ==
    LET e == ChainEnd(H)
    IN  /\ HDRP(H.heap_listp) = WSIZE
        /\ HDRP(e) = H.brk - WSIZE
        /\ GET(H, HDRP(e)) = PACK(0, 1)

\* what extend_heap leaves when it has grown the region of H by incr
\* bytes: a free block that ends at the new epilogue and covers the new
\* bytes (shifted down by the old epilogue's word, which is its header)
ExtensionInstalled(H, incr, E) ==
    /\ E.ret # NULL
    /\ E.h.brk = H.brk + incr
    /\ IsFree(E.h, E.ret)
    /\ HDRP(E.ret) <= H.brk - WSIZE
    /\ (HDRP(E.ret) < H.brk - WSIZE => IsFree(H, E.ret))
    /\ HDRP(NEXT_BLKP(E.h, E.ret)) = E.h.brk - WSIZE
    /\ Tiled(E.h)

\* C18: the chain tiles the heap region up to the epilogue in its last
\* word, in the initial state and after every call; no call lowers the top
\* of the heap; a call that raises it has installed a free block over the
\* new bytes with the epilogue at the new end.
C18_EpilogueAndTiling ==
    /\ []Tiled(heap)
    /\ [][/\ heap'.brk >= heap.brk
          /\ heap'.brk > heap.brk =>
                ExtensionInstalled(heap, heap'.brk - heap.brk,
                    extend_heap(heap, (heap'.brk - heap.brk) \div WSIZE, fresh))]_vars

\* C18 witness: the heap was extended behind a free block, which the new
\* block merged with
C18_Witness ==
    /\ last.op = "malloc"
    /\ last.ret # NULL
    /\ HDRP(NEXT_BLKP(heap, last.ret)) = heap.brk - WSIZE
    /\ GET_SIZE(heap, HDRP(last.ret)) > realSize(last.size)
    /\ FreeList(heap) = <<>>

\* C20: the free list is a finite chain without repetition that ends in
\* NULL; the first node's back link is the sentinel and every other
\* node's back link is its predecessor in the list.
C20_LinkConsistency ==
    LET L == FreeList(heap)
    IN  /\ \A i, j \in DOMAIN L : L[i] = L[j] => i = j
        /\ NEXT_BLKP_EX(heap, IF L = <<>> THEN heap.heap_listp ELSE L[Len(L)]) = NULL
        /\ \A i \in DOMAIN L :
              PREV_BLKP_EX(heap, L[i]) = IF i = 1 THEN heap.heap_listp ELSE L[i - 1]

\* C20 witness: allocate has unlinked a node while two nodes stay linked
C20_Witness ==
    /\ last.op = "malloc"
    /\ last.ret # NULL
    /\ Len(FreeList(heap)) >= 2

(* -------------------- requests that wrap around 2^32 ------------------- *)
\* the largest MaxWrap values of size_t: 2^32 - k for k in 1..MaxWrap
WrapSizes == {Sub32(0, k) : k \in 1..MaxWrap}

\* p = mm_malloc(n) for a size within OVERHEAD of 2^32
MallocWide ==
    \E n \in WrapSizes :
        /\ Count
        /\ MallocDone(n, mm_malloc(heap, n, fresh))

NextWide == Next \/ MallocWide

SpecWide == Init /\ [][NextWide]_vars

(* ------------------ allocate and deallocate alone ---------------------- *)
\* p = mm_malloc(MidReq)
MallocMid ==
    /\ Count
    /\ MallocDone(MidReq, mm_malloc(heap, MidReq, fresh))

NextMid == Malloc \/ MallocMid \/ Free

SpecMid == Init /\ [][NextMid]_vars

(* ---------------------- the caller stores bytes ------------------------ *)
\* the word w with its k low bytes set to the byte v
StoreLow(w, k, v) ==
    (w \div Pow256(k)) * Pow256(k) + v * ((Pow256(k) - 1) \div 255)

\* memset(p, v, SmallReq): whole words, then the low bytes of the next word
memset_small(H, p, v) ==
    [H EXCEPT !.mem =
       [i \in DOMAIN H.mem |->
          IF i >= p \div WSIZE /\ i < (p + SmallReq) \div WSIZE
          THEN v * 16843009
          ELSE IF i = (p + SmallReq) \div WSIZE
               THEN StoreLow(H.mem[i], SmallReq % WSIZE, v)
               ELSE H.mem[i]]]

\* the caller stores the byte v in the first SmallReq bytes of a block it
\* holds (no block is obtained for fewer bytes)
Write ==
    \E p \in live, v \in 1..MaxByte :
        /\ Count
        /\ heap' = memset_small(heap, p, v)
        /\ live' = live
        /\ last' = Call("write", p, SmallReq, NULL)

NextData == Malloc \/ Free \/ Realloc \/ Write

SpecData == Init /\ [][NextData]_vars

(* ----------------------- the NEXT_FIT build ---------------------------- *)
InitNext ==
    /\ fresh \in FreshWords
    /\ heap = mm_init_next(fresh)
    /\ live = {}
    /\ last = Call("init", NULL, 0, NULL)
    /\ ncalls = 0

SpecNext == InitNext /\ [][Next]_vars

\* the caller of SpecWide on the NEXT_FIT build: for a request that wraps
\* around at line 143, line 314 lets find_fit return the sentinel, and
\* deleteblock then stores through the sentinel's NULL back link
SpecNextWide == InitNext /\ [][NextWide]_vars
====
